---- MODULE Spec2Model ----
(***************************************************************************)
(* Model of the context-expansion pipeline of                              *)
(* 10_guides_zero_to_hero/02_expand_context.py.                            *)
(*                                                                         *)
(* A Python str is modelled as a sequence of one-character strings; the    *)
(* fixed text of an f-string template is a single element of the sequence  *)
(* (its characters are never inspected), while every "\n" of a template    *)
(* and every character of an input is an element of its own.  A dict is a  *)
(* sequence of <<key, value>> pairs in insertion order.                    *)
(***************************************************************************)
EXTENDS Integers, Sequences, FiniteSets, TLC

VARIABLES
    pc,               \* position of the running call
    args,             \* the arguments of the running call
    calls,            \* generation calls made so far: [prompt, ok, response, latency]
    layer_results,    \* the dict built by test_layered_contexts
    idx,              \* number of layers test_layered_contexts has iterated over
    context_parts,    \* the list built by create_expanded_context
    knowledge_base,   \* the caller's knowledge base object
    re_bound,         \* whether the session's globals bind the name `re`
    ret,              \* the returned value, None before the return
    exc               \* the exception that left the call, "none" if none

vars == <<pc, args, calls, layer_results, idx, context_parts, knowledge_base,
          re_bound, ret, exc>>

----------------------------------------------------------------------------
(* Bounds of the model *)

MaxLayers == 2
MaxKB == 4
MaxList == 2
MaxReply == 4
MaxContext == 2
MaxPrompt == 3

\* an optional value: None, or Some(v)
None == [some |-> FALSE, val |-> <<>>]
Some(v) == [some |-> TRUE, val |-> v]

\* bool(x) of an optional str or list: None, "" and [] are falsy
Truthy(x) == x.some /\ x.val # <<>>

----------------------------------------------------------------------------
(* Strings *)

NL == "\n"
SEP == <<NL, NL>>

RECURSIVE Join_trailing(_, _)
\* a join that also puts the separator after the last part
Join_trailing(sep, parts) ==
    IF parts = <<>> THEN <<>>
    ELSE parts[1] \o sep \o Join_trailing(sep, Tail(parts))

RECURSIVE Join(_, _)
\* sep.join(parts)
Join(sep, parts) ==
    IF parts = <<>> THEN <<>>
    ELSE IF Len(parts) = 1 THEN parts[1]
    ELSE parts[1] \o sep \o Join(sep, Tail(parts))

RECURSIVE Digits(_)
\* str(n) for a non-negative int
Digits(n) ==
    LET d == <<"0", "1", "2", "3", "4", "5", "6", "7", "8", "9">>
    IN  IF n < 10 THEN <<d[n + 1]>> ELSE Digits(n \div 10) \o <<d[(n % 10) + 1]>>

RECURSIVE GCD(_, _)
GCD(a, b) == IF b = 0 THEN a ELSE GCD(b, a % b)

\* the value of n / d (d > 0) as a fraction in lowest terms
Div(n, d) == LET g == GCD(n, d) IN <<n \div g, d \div g>>

\* the value of the int n
Whole(n) == <<n, 1>>

----------------------------------------------------------------------------
(* Metering *)

\* len(tokenizer.encode(text)): the external tokenizer, one token per element
count_tokens(text) == Len(text)

\* metrics whose guards are off by one: a one-token prompt is taken for empty
calculate_metrics_guard1(prompt, response, latency) ==
    LET prompt_tokens == count_tokens(prompt)
        response_tokens == count_tokens(response)
        token_efficiency == IF prompt_tokens > 1
                            THEN Div(response_tokens, prompt_tokens) ELSE Whole(0)
        latency_per_1k == IF prompt_tokens > 1
                          THEN Div(latency * 1000, prompt_tokens) ELSE Whole(0)
    IN  [prompt_tokens |-> prompt_tokens,
         response_tokens |-> response_tokens,
         token_efficiency |-> token_efficiency,
         latency |-> latency,
         latency_per_1k |-> latency_per_1k]

\* lines 75-89
calculate_metrics(prompt, response, latency) ==
    LET prompt_tokens == count_tokens(prompt)
        response_tokens == count_tokens(response)
        token_efficiency == IF prompt_tokens > 0
                            THEN Div(response_tokens, prompt_tokens) ELSE Whole(0)
        latency_per_1k == IF prompt_tokens > 0
                          THEN Div(latency * 1000, prompt_tokens) ELSE Whole(0)
    IN  [prompt_tokens |-> prompt_tokens,
         response_tokens |-> response_tokens,
         token_efficiency |-> token_efficiency,
         latency |-> latency,
         latency_per_1k |-> latency_per_1k]

\* what client.chat.completions.create can do with a prompt: raise, or answer
\* with a text after some time
Responses == {<<>>, <<"o", "k">>}
Latencies == {1, 2}
Outcomes ==
    {[ok |-> FALSE, response |-> <<>>, latency |-> 0]}
    \cup {[ok |-> TRUE, response |-> r, latency |-> l] : r \in Responses, l \in Latencies}

\* generate_response(prompt) with outcome o, entered in the log of calls
generate_response(prompt, o) ==
    Append(calls, [prompt |-> prompt, ok |-> o.ok, response |-> o.response,
                   latency |-> o.latency])

----------------------------------------------------------------------------
(* Dicts *)

HasKey(d, k) == \E i \in 1..Len(d) : d[i][1] = k

\* d[k] = v: replaces the value of an existing key in place, else appends
DictSet(d, k, v) ==
    IF HasKey(d, k)
    THEN [i \in 1..Len(d) |-> IF d[i][1] = k THEN <<k, v>> ELSE d[i]]
    ELSE Append(d, <<k, v>>)

Keys(d) == [i \in 1..Len(d) |-> d[i][1]]
Values(d) == [i \in 1..Len(d) |-> d[i][2]]

----------------------------------------------------------------------------
(* 6. Layer experiment runner *)

BasePrompts == {<<>>, <<"p">>}
LayerNames == {<<>>, <<"r">>, <<"r", "t">>}
LayerTexts == {<<>>, <<"c">>, <<"d", NL>>}

\* dicts of at most MaxLayers layers: distinct names, any order
LayerDicts ==
    {d \in UNION {[1..k -> LayerNames \X LayerTexts] : k \in 0..MaxLayers} :
        \A i, j \in 1..Len(d) : d[i][1] = d[j][1] => i = j}

KeyBase == <<"b", "a", "s", "e">>
KeyAllLayers == <<"a", "l", "l", "_", "l", "a", "y", "e", "r", "s">>
\* a runner that records every layer under one key
KeyLayer_noname(layer_name) == KeyBase \o <<"+">>

\* f"base+{layer_name}"
KeyLayer(layer_name) == KeyBase \o <<"+">> \o layer_name

\* a runner that joins with a single newline
CombinedPrompt_oneNL(base_prompt, layer_content) == base_prompt \o <<NL>> \o layer_content

\* f"{base_prompt}\n\n{layer_content}"
CombinedPrompt(base_prompt, layer_content) == base_prompt \o SEP \o layer_content

InitRunner ==
    /\ pc = "base"
    /\ args \in [base_prompt : BasePrompts, context_layers : LayerDicts]
    /\ calls = <<>>
    /\ layer_results = <<>>
    /\ idx = 0
    /\ context_parts = <<>>
    /\ knowledge_base = <<>>
    /\ re_bound = FALSE
    /\ ret = None
    /\ exc = "none"

\* lines 249-250
TestBase ==
    /\ pc = "base"
    /\ \E o \in Outcomes :
        /\ calls' = generate_response(args.base_prompt, o)
        /\ IF o.ok
           THEN /\ layer_results' = DictSet(layer_results, KeyBase,
                        calculate_metrics(args.base_prompt, o.response, o.latency))
                /\ pc' = "layers"
                /\ exc' = exc
           ELSE /\ pc' = "raised"
                /\ exc' = "APIError"
                /\ layer_results' = layer_results
    /\ UNCHANGED <<args, idx, context_parts, knowledge_base, re_bound, ret>>

\* a runner that swallows the failure of a layer's call and goes on
TestLayer_swallow ==
    /\ pc = "layers"
    /\ idx < Len(args.context_layers)
    /\ LET layer_name == args.context_layers[idx + 1][1]
           layer_content == args.context_layers[idx + 1][2]
           combined_prompt == CombinedPrompt(args.base_prompt, layer_content)
       IN  \E o \in Outcomes :
            /\ calls' = generate_response(combined_prompt, o)
            /\ layer_results' =
                    IF o.ok
                    THEN DictSet(layer_results, KeyLayer(layer_name),
                            calculate_metrics(combined_prompt, o.response, o.latency))
                    ELSE layer_results
            /\ idx' = idx + 1
    /\ UNCHANGED <<pc, exc, args, context_parts, knowledge_base, re_bound, ret>>

\* lines 253-256, one iteration
TestLayer ==
    /\ pc = "layers"
    /\ idx < Len(args.context_layers)
    /\ LET layer_name == args.context_layers[idx + 1][1]
           layer_content == args.context_layers[idx + 1][2]
           combined_prompt == CombinedPrompt(args.base_prompt, layer_content)
       IN  \E o \in Outcomes :
            /\ calls' = generate_response(combined_prompt, o)
            /\ IF o.ok
               THEN /\ layer_results' = DictSet(layer_results, KeyLayer(layer_name),
                            calculate_metrics(combined_prompt, o.response, o.latency))
                    /\ idx' = idx + 1
                    /\ pc' = pc
                    /\ exc' = exc
               ELSE /\ pc' = "raised"
                    /\ exc' = "APIError"
                    /\ UNCHANGED <<layer_results, idx>>
    /\ UNCHANGED <<args, context_parts, knowledge_base, re_bound, ret>>

\* lines 259-264
TestAll ==
    /\ pc = "layers"
    /\ idx = Len(args.context_layers)
    /\ LET all_layers == Join(SEP, Values(args.context_layers))
           full_prompt == CombinedPrompt(args.base_prompt, all_layers)
       IN  \E o \in Outcomes :
            /\ calls' = generate_response(full_prompt, o)
            /\ IF o.ok
               THEN /\ layer_results' = DictSet(layer_results, KeyAllLayers,
                            calculate_metrics(full_prompt, o.response, o.latency))
                    /\ ret' = Some(layer_results')
                    /\ pc' = "returned"
                    /\ exc' = exc
               ELSE /\ pc' = "raised"
                    /\ exc' = "APIError"
                    /\ UNCHANGED <<layer_results, ret>>
    /\ UNCHANGED <<args, idx, context_parts, knowledge_base, re_bound>>

NextRunner == TestBase \/ TestLayer \/ TestAll

SpecRunner == InitRunner /\ [][NextRunner]_vars

----------------------------------------------------------------------------
(* Properties of the layer experiment runner *)

Layers == args.context_layers
NumLayers == Len(Layers)

\* the keys the result of a run over the layers must have, in order
ExpectedKeys ==
    [j \in 1..(NumLayers + 2) |->
        IF j = 1 THEN <<"b", "a", "s", "e">>
        ELSE IF j = NumLayers + 2
             THEN <<"a", "l", "l", "_", "l", "a", "y", "e", "r", "s">>
             ELSE <<"b", "a", "s", "e", "+">> \o Layers[j - 1][1]]

\* C1: a run of test_layered_contexts whose k + 2 generation calls all succeed
\* returns a mapping of exactly k + 2 entries with the keys "base",
\* "base+<name>" for each layer in iteration order, "all_layers", in that order.
C1_ResultKeys ==
    (pc = "returned") =>
        /\ ret.some
        /\ Len(ret.val) = NumLayers + 2
        /\ Keys(ret.val) = ExpectedKeys
        /\ \A i, j \in 1..Len(ret.val) : ret.val[i][1] = ret.val[j][1] => i = j

C1_Witness ==
    /\ pc = "returned"
    /\ NumLayers = 2
    /\ Len(ret.val) = 4
    /\ \A i \in 1..Len(calls) : calls[i].ok

\* C2: when the generation call of a variant fails, the error leaves
\* test_layered_contexts, the failed call is the last call made (no later
\* variant is called, nothing is retried) and no mapping is returned.
C2_FailureAborts ==
    \A i \in 1..Len(calls) :
        ~calls[i].ok =>
            /\ i = Len(calls)
            /\ pc = "raised"
            /\ exc = "APIError"
            /\ ret = None

C2_Witness ==
    /\ pc = "raised"
    /\ NumLayers = 2
    /\ Len(calls) = 2
    /\ ~calls[2].ok
    /\ ret = None

RECURSIVE AllTexts(_)
\* the texts of the first n layers with a blank line between neighbours
AllTexts(n) ==
    IF n = 0 THEN <<>>
    ELSE IF n = 1 THEN Layers[1][2]
    ELSE AllTexts(n - 1) \o <<"\n", "\n">> \o Layers[n][2]

\* the prompt of the j-th variant
ExpectedPrompt(j) ==
    IF j = 1 THEN args.base_prompt
    ELSE IF j = NumLayers + 2
         THEN args.base_prompt \o <<"\n", "\n">> \o AllTexts(NumLayers)
         ELSE args.base_prompt \o <<"\n", "\n">> \o Layers[j - 1][2]

\* C3: the calls are made in the order base, each layer, all_layers, at most
\* one per variant and exactly k + 2 in a successful run; each is sent the
\* prompt of its variant, and the metrics recorded for a variant are those of
\* the prompt sent for it.
C3_CallsAndPrompts ==
    /\ Len(calls) <= NumLayers + 2
    /\ \A j \in 1..Len(calls) : calls[j].prompt = ExpectedPrompt(j)
    /\ (pc = "returned") =>
        /\ Len(calls) = NumLayers + 2
        /\ \A j \in 1..Len(ret.val) :
            /\ ret.val[j][2].prompt_tokens = count_tokens(calls[j].prompt)
            /\ ret.val[j][2] =
                 calculate_metrics(calls[j].prompt, calls[j].response, calls[j].latency)

C3_Witness ==
    /\ pc = "returned"
    /\ NumLayers = 2
    /\ Len(calls) = 4
    /\ Layers[1][2] # Layers[2][2]

C3_WitnessNoLayers ==
    /\ pc = "returned"
    /\ NumLayers = 0
    /\ Len(calls) = 2
    /\ calls[2].prompt = args.base_prompt \o <<"\n", "\n">>

----------------------------------------------------------------------------
(* 5. Context layer composer *)

OptStr(c) == {None, Some(<<>>), Some(<<c>>)}

\* optional lists of at most MaxList strings
OptList(c) ==
    {None} \cup {Some(l) : l \in UNION {[1..n -> {<<>>, <<c>>, <<c, NL>>}] : n \in 0..MaxList}}

RoleClause(role) == <<"You are ">> \o role \o <<".">>
AudienceClause(audience) ==
    <<"Your response should be suitable for ">> \o audience \o <<".">>
ToneClause(tone) == <<"Use a ">> \o tone \o <<" tone in your response.">>
FormatClause(output_format) ==
    <<"Format your response as ">> \o output_format \o <<".">>
RequirementsHeader == <<"Requirements:">>
ConstraintLine(constraint) == <<"- ">> \o constraint
ExamplesHeader == <<"Examples:">>
\* f"Example {i}:\n{example}"
ExampleBlock(i, example) == <<"Example ">> \o Digits(i) \o <<":", NL>> \o example

\* a composer that puts the tone clause before the audience clause
PartsOf_toneFirst(a) ==
    LET p1 == IF Truthy(a.role) THEN <<RoleClause(a.role.val)>> ELSE <<>>
        p2 == Append(p1, a.base_prompt)
        p3 == IF Truthy(a.tone) THEN Append(p2, ToneClause(a.tone.val)) ELSE p2
        p4 == IF Truthy(a.audience)
              THEN Append(p3, AudienceClause(a.audience.val)) ELSE p3
        p5 == IF Truthy(a.output_format)
              THEN Append(p4, FormatClause(a.output_format.val)) ELSE p4
        p6 == IF Truthy(a.constraints)
              THEN Append(p5, RequirementsHeader)
                   \o [j \in 1..Len(a.constraints.val) |->
                          ConstraintLine(a.constraints.val[j])]
              ELSE p5
        p7 == IF Truthy(a.examples)
              THEN Append(p6, ExamplesHeader)
                   \o [j \in 1..Len(a.examples.val) |->
                          ExampleBlock(j, a.examples.val[j])]
              ELSE p6
    IN  p7

\* lines 210-234: context_parts after the appends
PartsOf(a) ==
    LET p1 == IF Truthy(a.role) THEN <<RoleClause(a.role.val)>> ELSE <<>>
        p2 == Append(p1, a.base_prompt)
        p3 == IF Truthy(a.audience)
              THEN Append(p2, AudienceClause(a.audience.val)) ELSE p2
        p4 == IF Truthy(a.tone) THEN Append(p3, ToneClause(a.tone.val)) ELSE p3
        p5 == IF Truthy(a.output_format)
              THEN Append(p4, FormatClause(a.output_format.val)) ELSE p4
        p6 == IF Truthy(a.constraints)
              THEN Append(p5, RequirementsHeader)
                   \o [j \in 1..Len(a.constraints.val) |->
                          ConstraintLine(a.constraints.val[j])]
              ELSE p5
        p7 == IF Truthy(a.examples)
              THEN Append(p6, ExamplesHeader)
                   \o [j \in 1..Len(a.examples.val) |->
                          ExampleBlock(j, a.examples.val[j])]
              ELSE p6
    IN  p7

InitCompose ==
    /\ pc = "start"
    /\ args \in [base_prompt : BasePrompts,
                 role : OptStr("R"),
                 examples : OptList("e"),
                 constraints : OptList("c"),
                 audience : OptStr("A"),
                 tone : OptStr("T"),
                 output_format : OptStr("F")]
    /\ calls = <<>>
    /\ layer_results = <<>>
    /\ idx = 0
    /\ context_parts = <<>>
    /\ knowledge_base = <<>>
    /\ re_bound = FALSE
    /\ ret = None
    /\ exc = "none"

\* lines 200-236
create_expanded_context ==
    /\ pc = "start"
    /\ context_parts' = PartsOf(args)
    /\ ret' = Some(Join(SEP, context_parts'))
    /\ pc' = "returned"
    /\ UNCHANGED <<args, calls, layer_results, idx, knowledge_base, re_bound, exc>>

NextCompose == create_expanded_context

SpecCompose == InitCompose /\ [][NextCompose]_vars

----------------------------------------------------------------------------
(* Properties of the context layer composer *)

Present(x) == x.some /\ Len(x.val) > 0
Bit(b) == IF b THEN 1 ELSE 0

\* the index in context_parts at which each section must end
EndRole == Bit(Present(args.role))
EndBase == EndRole + 1
EndAudience == EndBase + Bit(Present(args.audience))
EndTone == EndAudience + Bit(Present(args.tone))
EndFormat == EndTone + Bit(Present(args.output_format))
EndRequirements ==
    EndFormat + (IF Present(args.constraints) THEN 1 + Len(args.constraints.val) ELSE 0)
EndExamples ==
    EndRequirements + (IF Present(args.examples) THEN 1 + Len(args.examples.val) ELSE 0)

\* C4: the sections of the output of create_expanded_context are, in this
\* order, the role clause, the base prompt, the audience, tone and
\* output-format clauses, the "Requirements:" block with the constraints in
\* input order and the "Examples:" block with the examples numbered from 1 in
\* input order, each section being there exactly when its layer is present.
C4_SectionOrder ==
    (pc = "returned") =>
        LET p == context_parts IN
        /\ Len(p) = EndExamples
        /\ Present(args.role) => p[EndRole] = <<"You are ">> \o args.role.val \o <<".">>
        /\ p[EndBase] = args.base_prompt
        /\ Present(args.audience) =>
             p[EndAudience] =
                <<"Your response should be suitable for ">> \o args.audience.val \o <<".">>
        /\ Present(args.tone) =>
             p[EndTone] = <<"Use a ">> \o args.tone.val \o <<" tone in your response.">>
        /\ Present(args.output_format) =>
             p[EndFormat] =
                <<"Format your response as ">> \o args.output_format.val \o <<".">>
        /\ Present(args.constraints) =>
             /\ p[EndFormat + 1] = <<"Requirements:">>
             /\ \A j \in 1..Len(args.constraints.val) :
                  p[EndFormat + 1 + j] = <<"- ">> \o args.constraints.val[j]
        /\ Present(args.examples) =>
             /\ p[EndRequirements + 1] = <<"Examples:">>
             /\ \A j \in 1..Len(args.examples.val) :
                  p[EndRequirements + 1 + j] =
                     <<"Example ", <<"1", "2", "3", "4", "5", "6", "7", "8", "9">>[j],
                       ":", "\n">> \o args.examples.val[j]

C4_Witness ==
    /\ pc = "returned"
    /\ Present(args.role) /\ Present(args.audience) /\ Present(args.tone)
    /\ Present(args.output_format)
    /\ Present(args.constraints) /\ Len(args.constraints.val) = 2
    /\ Present(args.examples) /\ Len(args.examples.val) = 2
    /\ Len(context_parts) = 11

RECURSIVE StartOf(_, _)
\* the index in the joined text at which the i-th of the parts starts when a
\* blank line separates neighbours
StartOf(parts, i) ==
    IF i = 1 THEN 1 ELSE StartOf(parts, i - 1) + Len(parts[i - 1]) + 2

\* C5: the output of create_expanded_context is its sections with exactly
\* one blank line between neighbours and nothing before the first or after
\* the last; an absent layer (None, "" or []) adds no section, and with every
\* layer absent the output is the base prompt.
C5_BlankLineJoin ==
    (pc = "returned") =>
        LET p == context_parts
            n == Len(context_parts)
            out == ret.val
        IN  /\ Len(out) = StartOf(p, n) + Len(p[n]) - 1
            /\ \A i \in 1..n :
                 SubSeq(out, StartOf(p, i), StartOf(p, i) + Len(p[i]) - 1) = p[i]
            /\ \A i \in 1..(n - 1) :
                 /\ out[StartOf(p, i + 1) - 2] = "\n"
                 /\ out[StartOf(p, i + 1) - 1] = "\n"
            /\ n = 1 + Bit(Present(args.role)) + Bit(Present(args.audience))
                     + Bit(Present(args.tone)) + Bit(Present(args.output_format))
                     + (IF Present(args.constraints)
                        THEN 1 + Len(args.constraints.val) ELSE 0)
                     + (IF Present(args.examples)
                        THEN 1 + Len(args.examples.val) ELSE 0)
            /\ \A i \in 1..n : (p[i] = <<>>) => (i = EndBase /\ args.base_prompt = <<>>)
            /\ (n = 1) => out = args.base_prompt

C5_Witness ==
    /\ pc = "returned"
    /\ Present(args.role)
    /\ args.audience = Some(<<>>)
    /\ args.tone = None
    /\ args.constraints = Some(<<>>)
    /\ Present(args.examples)
    /\ args.base_prompt # <<>>
    /\ Len(context_parts) = 3 + Len(args.examples.val)

C5_WitnessAllAbsent ==
    /\ pc = "returned"
    /\ ~Present(args.role) /\ ~Present(args.audience) /\ ~Present(args.tone)
    /\ ~Present(args.output_format) /\ ~Present(args.constraints)
    /\ ~Present(args.examples)
    /\ args.base_prompt # <<>>
    /\ ret.val = args.base_prompt

----------------------------------------------------------------------------
(* 9. Retrieval augmenter *)

\* str.lower() on the characters of the model
LowerChar(c) == IF c = "A" THEN "a" ELSE IF c = "B" THEN "b" ELSE c
Lower(text) == [i \in 1..Len(text) |-> LowerChar(text[i])]

\* the characters str.split() splits on
IsSpace(c) == c \in {" ", NL}

RECURSIVE SplitFrom(_, _, _)
\* str.split(): the maximal runs of non-whitespace of text from index i on,
\* cur being the run read so far
SplitFrom(text, i, cur) ==
    IF i > Len(text) THEN (IF cur = <<>> THEN <<>> ELSE <<cur>>)
    ELSE IF IsSpace(text[i])
         THEN (IF cur = <<>> THEN <<>> ELSE <<cur>>) \o SplitFrom(text, i + 1, <<>>)
         ELSE SplitFrom(text, i + 1, Append(cur, text[i]))

Split(text) == SplitFrom(text, 1, <<>>)

\* `sub in text`
Contains(text, sub) ==
    \E i \in 0..(Len(text) - Len(sub)) : SubSeq(text, i + 1, i + Len(sub)) = sub

\* a retrieval that returns every match
Top3_all(list) == list

\* relevant_info[:3]
Top3(list) == SubSeq(list, 1, IF Len(list) < 3 THEN Len(list) ELSE 3)

RECURSIVE RelevantFrom(_, _, _)
\* lines 328-333: the loop over the knowledge base from item i on
RelevantFrom(query_terms, kb, i) ==
    IF i > Len(kb) THEN <<>>
    ELSE LET content == Lower(kb[i].content)
             title == Lower(kb[i].title)
             hit == \E term \in query_terms :
                        Contains(content, term) \/ Contains(title, term)
         IN  (IF hit THEN <<kb[i].content>> ELSE <<>>)
             \o RelevantFrom(query_terms, kb, i + 1)

\* lines 323-335
retrieve_relevant_info(query, kb) ==
    LET terms == Split(Lower(query))
        query_terms == {terms[i] : i \in 1..Len(terms)}
    IN  Top3(RelevantFrom(query_terms, kb, 1))

\* an augmenter that appends the block even when nothing was retrieved
RagContext_always(base_prompt, relevant_info) ==
    base_prompt \o SEP \o <<"Relevant information:", NL, NL>> \o Join(SEP, relevant_info)

\* lines 341-345
RagContext(base_prompt, relevant_info) ==
    IF relevant_info = <<>>
    THEN base_prompt
    ELSE LET context_block == <<"Relevant information:", NL, NL>> \o Join(SEP, relevant_info)
         IN  base_prompt \o SEP \o context_block

Queries == {<<>>, <<" ">>, <<"a">>, <<"A", "b">>, <<" ", "b", NL, "z">>, <<"a", " ", "b">>}
Items ==
    {[title |-> <<"A">>, content |-> <<"x">>],
     [title |-> <<>>, content |-> <<"B", "a">>],
     [title |-> <<"c">>, content |-> <<"c", "a", "b">>],
     [title |-> <<"b">>, content |-> <<>>],
     [title |-> <<"c">>, content |-> <<"y", " ", "y">>]}

KnowledgeBases == UNION {[1..n -> Items] : n \in 0..MaxKB}

InitRetrieval ==
    /\ pc = "start"
    /\ knowledge_base \in KnowledgeBases
    /\ \E q \in Queries, b \in BasePrompts :
          args = [base_prompt |-> b, query |-> q, knowledge_base |-> knowledge_base]
    /\ calls = <<>>
    /\ layer_results = <<>>
    /\ idx = 0
    /\ context_parts = <<>>
    /\ re_bound = FALSE
    /\ ret = None
    /\ exc = "none"

\* lines 323-335, called on its own
Retrieve ==
    /\ pc = "start"
    /\ ret' = Some(retrieve_relevant_info(args.query, knowledge_base))
    /\ pc' = "retrieved"
    /\ UNCHANGED <<args, calls, layer_results, idx, context_parts, knowledge_base,
                   re_bound, exc>>

\* lines 337-345
create_rag_context ==
    /\ pc = "start"
    /\ LET relevant_info == retrieve_relevant_info(args.query, knowledge_base)
       IN  ret' = Some(RagContext(args.base_prompt, relevant_info))
    /\ pc' = "augmented"
    /\ UNCHANGED <<args, calls, layer_results, idx, context_parts, knowledge_base,
                   re_bound, exc>>

NextRetrieval == Retrieve \/ create_rag_context

SpecRetrieval == InitRetrieval /\ [][NextRetrieval]_vars

----------------------------------------------------------------------------
(* Properties of the retrieval augmenter *)

\* the whitespace-separated lowercased terms of the query: the maximal
\* stretches of the lowercased query without whitespace
TermsOfQuery ==
    LET q == [i \in 1..Len(args.query) |->
                 IF args.query[i] = "A" THEN "a"
                 ELSE IF args.query[i] = "B" THEN "b" ELSE args.query[i]]
        Blank(i) == q[i] = " " \/ q[i] = "\n"
    IN  {SubSeq(q, i, j) : <<i, j>> \in
            {ij \in (1..Len(q)) \X (1..Len(q)) :
                /\ ij[1] <= ij[2]
                /\ \A m \in ij[1]..ij[2] : ~Blank(m)
                /\ ij[1] = 1 \/ Blank(ij[1] - 1)
                /\ ij[2] = Len(q) \/ Blank(ij[2] + 1)}}

LowerOf(text) ==
    [i \in 1..Len(text) |->
        IF text[i] = "A" THEN "a" ELSE IF text[i] = "B" THEN "b" ELSE text[i]]

Occurs(sub, text) ==
    \E i \in 1..(Len(text) + 1) :
        /\ i + Len(sub) - 1 <= Len(text)
        /\ \A m \in 1..Len(sub) : text[i + m - 1] = sub[m]

\* the indices of the items some term of the query occurs in
Matching ==
    {i \in 1..Len(args.knowledge_base) :
        \E t \in TermsOfQuery :
            \/ Occurs(t, LowerOf(args.knowledge_base[i].title))
            \/ Occurs(t, LowerOf(args.knowledge_base[i].content))}

\* the j-th matching item
NthMatching(j) == CHOOSE i \in Matching : Cardinality({m \in Matching : m <= i}) = j

\* C6: retrieve_relevant_info returns the contents of the first min(3, m)
\* matching items in the order of the knowledge base, m being the number of
\* items in whose lowercased title or content some lowercased
\* whitespace-separated term of the query occurs: exactly 3 when m > 3, and
\* never the content of an item that does not match.
C6_FirstThreeMatches ==
    (pc = "retrieved") =>
        LET m == Cardinality(Matching)
            out == ret.val
        IN  /\ Len(out) = (IF m < 3 THEN m ELSE 3)
            /\ \A j \in 1..Len(out) : out[j] = args.knowledge_base[NthMatching(j)].content

C6_Witness ==
    /\ pc = "retrieved"
    /\ Cardinality(Matching) = 4
    /\ Len(ret.val) = 3

C6_WitnessSkips ==
    /\ pc = "retrieved"
    /\ Len(args.knowledge_base) = 4
    /\ Matching = {2, 4}
    /\ ret.val = <<args.knowledge_base[2].content, args.knowledge_base[4].content>>

\* C7: create_rag_context returns the base prompt when no item matches the
\* query, otherwise the base prompt, a blank line, "Relevant information:", a
\* blank line and the retrieved contents with a blank line between
\* neighbours; the knowledge base is left as it was.
C7_RagContext ==
    /\ knowledge_base = args.knowledge_base
    /\ (pc = "augmented") =>
        IF Matching = {}
        THEN ret.val = args.base_prompt
        ELSE LET got == retrieve_relevant_info(args.query, args.knowledge_base)
             IN  /\ got # <<>>
                 /\ ret.val = args.base_prompt \o <<"\n", "\n">>
                                \o <<"Relevant information:", "\n", "\n">>
                                \o Join(<<"\n", "\n">>, got)

C7_Witness ==
    /\ pc = "augmented"
    /\ Cardinality(Matching) >= 2
    /\ ret.val # args.base_prompt

C7_WitnessMiss ==
    /\ pc = "augmented"
    /\ Len(args.knowledge_base) > 0
    /\ TermsOfQuery # {}
    /\ Matching = {}
    /\ ret.val = args.base_prompt

C7_WitnessBlankQuery ==
    /\ pc = "augmented"
    /\ Len(args.knowledge_base) > 0
    /\ args.query = <<" ">>
    /\ ret.val = args.base_prompt

----------------------------------------------------------------------------
(* 8. Quality evaluator *)

IsDigit(c) == c \in {"0", "1", "2", "3", "4", "5", "6", "7", "8", "9"}
DigitVal(c) == CHOOSE v \in 0..9 : Digits(v) = <<c>>

RECURSIVE DigitsEnd(_, _)
\* the index of the last digit of the run of digits that starts at index i,
\* i - 1 when there is no digit at i
DigitsEnd(text, i) ==
    IF i <= Len(text) /\ IsDigit(text[i]) THEN DigitsEnd(text, i + 1) ELSE i - 1

RECURSIVE FindAllFrom(_, _)
\* re.findall(r"(\d+\.\d+)", text) from index i on: leftmost, greedy,
\* non-overlapping matches
FindAllFrom(text, i) ==
    IF i > Len(text) THEN <<>>
    ELSE LET e1 == DigitsEnd(text, i) IN
         IF /\ e1 >= i
            /\ e1 + 2 <= Len(text)
            /\ text[e1 + 1] = "."
            /\ IsDigit(text[e1 + 2])
         THEN LET e2 == DigitsEnd(text, e1 + 2)
              IN  <<SubSeq(text, i, e2)>> \o FindAllFrom(text, e2 + 1)
         ELSE FindAllFrom(text, i + 1)

FindAll(text) == FindAllFrom(text, 1)

RECURSIVE Pow10(_)
Pow10(n) == IF n = 0 THEN 1 ELSE 10 * Pow10(n - 1)

RECURSIVE DecVal(_)
\* the number a string of digits denotes
DecVal(ds) ==
    IF ds = <<>> THEN 0 ELSE 10 * DecVal(SubSeq(ds, 1, Len(ds) - 1)) + DigitVal(ds[Len(ds)])

\* float(m) of a match m of \d+\.\d+, as a fraction in lowest terms
Float(m) ==
    LET dot == CHOOSE i \in 1..Len(m) : m[i] = "."
        whole == SubSeq(m, 1, dot - 1)
        frac == SubSeq(m, dot + 1, Len(m))
    IN  Div(DecVal(whole) * Pow10(Len(frac)) + DecVal(frac), Pow10(Len(frac)))

\* line 315, `re` being bound
Score(evaluation) ==
    LET found == FindAll(evaluation)
    IN  IF found # <<>> THEN Float(found[Len(found)]) ELSE <<1, 2>>

\* lines 305-311
EvalPrompt(prompt, response, criteria) ==
    LET criteria_list == Join(<<NL>>, [i \in 1..Len(criteria) |-> <<"- ">> \o criteria[i]])
    IN  <<"Rate the quality of the following response to a prompt. ", NL, "Prompt: ">>
        \o prompt \o <<NL, "Response: ">> \o response
        \o <<NL, "Evaluate based on these criteria:", NL>> \o criteria_list
        \o <<NL, "Provide an overall score from 0.0 to 1.0.">>

ReplyChars == {"0", "1", "7", ".", "x"}
Replies == UNION {[1..n -> ReplyChars] : n \in 0..MaxReply}
EvalOutcomes ==
    {[ok |-> FALSE, response |-> <<>>, latency |-> 0]}
    \cup {[ok |-> TRUE, response |-> r, latency |-> 1] : r \in Replies}

\* The name `re` is looked up in the globals of the session when line 315
\* runs.  The setup cell (lines 30-46) does not import it, so it is bound
\* only in a session that imported it by other means.
InitEval ==
    /\ pc = "start"
    /\ args \in [prompt : {<<"p">>}, response : {<<"o">>},
                 criteria : {<<>>, <<<<"c">>>>, <<<<"c">>, <<"d">>>>}]
    /\ re_bound \in BOOLEAN
    /\ calls = <<>>
    /\ layer_results = <<>>
    /\ idx = 0
    /\ context_parts = <<>>
    /\ knowledge_base = <<>>
    /\ ret = None
    /\ exc = "none"

\* lines 303-315
evaluate_response_quality ==
    /\ pc = "start"
    /\ \E o \in EvalOutcomes :
        /\ calls' = generate_response(EvalPrompt(args.prompt, args.response, args.criteria), o)
        /\ IF ~o.ok
           THEN pc' = "raised" /\ exc' = "APIError" /\ ret' = ret
           ELSE IF ~re_bound
                THEN pc' = "raised" /\ exc' = "NameError" /\ ret' = ret
                ELSE pc' = "returned" /\ exc' = exc /\ ret' = Some(Score(o.response))
    /\ UNCHANGED <<args, layer_results, idx, context_parts, knowledge_base, re_bound>>

NextEval == evaluate_response_quality

SpecEval == InitEval /\ [][NextEval]_vars

----------------------------------------------------------------------------
(* Properties of the quality evaluator *)

C9_OneCallNeverFails ==
    (pc # "start") =>
        /\ Len(calls) = 1
        /\ calls[1].ok =>
            /\ pc = "returned"
            /\ LET found == FindAll(calls[1].response)
               IN  ret.val = IF found = <<>> THEN <<1, 2>> ELSE Float(found[Len(found)])

----------------------------------------------------------------------------
(* 7. Context compressor *)

Known == {"summarize", "keywords", "bullet"}

\* a compressor whose templates are not f-strings: the context is not filled in
CompressPrompt_literal(technique, context) ==
    IF technique = "summarize"
    THEN <<"Summarize the following context in a concise way that preserves all key information:",
           NL, "{context}">>
    ELSE IF technique = "keywords"
    THEN <<"Extract the most important keywords and phrases from this context:", NL,
           "{context}", NL, "Format your response as a comma-separated list.">>
    ELSE <<"Convert this context into a concise list of bullet points that", NL,
           "captures all essential information:", NL, "{context}">>

\* lines 275-276, 281-283, 288-290: the prompt of a known technique
CompressPrompt(technique, context) ==
    IF technique = "summarize"
    THEN <<"Summarize the following context in a concise way that preserves all key information:",
           NL>> \o context
    ELSE IF technique = "keywords"
    THEN <<"Extract the most important keywords and phrases from this context:", NL>>
         \o context \o <<NL, "Format your response as a comma-separated list.">>
    ELSE <<"Convert this context into a concise list of bullet points that", NL,
           "captures all essential information:", NL>> \o context

Contexts == UNION {[1..n -> {"c", NL}] : n \in 0..MaxContext}
Techniques == Known \cup {"unknown_technique", "Summarize", ""}

InitCompress ==
    /\ pc = "start"
    /\ args \in [context : Contexts, technique : Techniques]
    /\ calls = <<>>
    /\ layer_results = <<>>
    /\ idx = 0
    /\ context_parts = <<>>
    /\ knowledge_base = <<>>
    /\ re_bound = FALSE
    /\ ret = None
    /\ exc = "none"

\* lines 272-295
compress_context ==
    /\ pc = "start"
    /\ IF args.technique \in Known
       THEN \E o \in Outcomes :
              /\ calls' = generate_response(CompressPrompt(args.technique, args.context), o)
              /\ IF o.ok
                 THEN pc' = "returned" /\ ret' = Some(o.response) /\ exc' = exc
                 ELSE pc' = "raised" /\ exc' = "APIError" /\ ret' = ret
       ELSE /\ pc' = "returned"
            /\ ret' = Some(args.context)
            /\ UNCHANGED <<calls, exc>>
    /\ UNCHANGED <<args, layer_results, idx, context_parts, knowledge_base, re_bound>>

NextCompress == compress_context

SpecCompress == InitCompress /\ [][NextCompress]_vars

----------------------------------------------------------------------------
(* Properties of the context compressor *)

\* the text has the context in it, whole and in one piece
Embeds(text, context) ==
    \E i \in 1..(Len(text) + 1) :
        /\ i + Len(context) - 1 <= Len(text)
        /\ \A m \in 1..Len(context) : text[i + m - 1] = context[m]

\* C10: with a technique other than summarize, keywords and bullet,
\* compress_context returns the context as it is and makes no generation
\* call; with one of the three it makes exactly one call, whose prompt has
\* the context in it, and returns the text of that call's response as it is.
C10_Compress ==
    (pc # "start") =>
        IF args.technique \notin {"summarize", "keywords", "bullet"}
        THEN /\ pc = "returned"
             /\ ret.val = args.context
             /\ calls = <<>>
        ELSE /\ Len(calls) = 1
             /\ Embeds(calls[1].prompt, args.context)
             /\ calls[1].ok <=> pc = "returned"
             /\ (pc = "returned") => ret.val = calls[1].response

C10_Witness ==
    /\ pc = "returned"
    /\ args.technique = "keywords"
    /\ Len(args.context) = 2
    /\ Len(calls) = 1
    /\ ret.val = <<"o", "k">>
    /\ ret.val # args.context

C10_WitnessPassthrough ==
    /\ pc = "returned"
    /\ args.technique = "unknown_technique"
    /\ Len(args.context) = 2
    /\ calls = <<>>
    /\ ret.val = args.context

----------------------------------------------------------------------------
(* 1. Metrics of one prompt-response pair *)

MetricPrompts == UNION {[1..n -> {"p", " "}] : n \in 0..MaxPrompt}
MetricResponses == {<<>>, <<"o">>, <<"o", "k">>, <<"o", "k", "!">>}
MetricLatencies == {0, 1, 3}

InitMetrics ==
    /\ pc = "start"
    /\ args \in [prompt : MetricPrompts, response : MetricResponses,
                 latency : MetricLatencies]
    /\ calls = <<>>
    /\ layer_results = <<>>
    /\ idx = 0
    /\ context_parts = <<>>
    /\ knowledge_base = <<>>
    /\ re_bound = FALSE
    /\ ret = None
    /\ exc = "none"

\* lines 75-89, called on its own
Measure ==
    /\ pc = "start"
    /\ ret' = Some(calculate_metrics(args.prompt, args.response, args.latency))
    /\ pc' = "returned"
    /\ UNCHANGED <<args, calls, layer_results, idx, context_parts, knowledge_base,
                   re_bound, exc>>

NextMetrics == Measure

SpecMetrics == InitMetrics /\ [][NextMetrics]_vars

----------------------------------------------------------------------------
(* Properties of the metrics *)

\* the fraction f has the value n / d
IsQuotient(f, n, d) == f[2] > 0 /\ f[1] * d = n * f[2]

\* C11: calculate_metrics returns without a division error; for a prompt of
\* 0 tokens token_efficiency and latency_per_1k are 0, for a prompt of more
\* tokens they are response_tokens / prompt_tokens and
\* (latency / prompt_tokens) * 1000; prompt_tokens, response_tokens and
\* latency are reported as they are.
C11_Metrics ==
    (pc # "start") =>
        LET pt == Len(args.prompt)
            rt == Len(args.response)
            m == ret.val
        IN  /\ pc = "returned"
            /\ exc = "none"
            /\ ret.some
            /\ m.prompt_tokens = pt
            /\ m.response_tokens = rt
            /\ m.latency = args.latency
            /\ (pt = 0) => (m.token_efficiency[1] = 0 /\ m.latency_per_1k[1] = 0)
            /\ (pt > 0) =>
                 /\ IsQuotient(m.token_efficiency, rt, pt)
                 /\ IsQuotient(m.latency_per_1k, args.latency * 1000, pt)

C11_Witness ==
    /\ pc = "returned"
    /\ args.prompt = <<>>
    /\ args.response # <<>>
    /\ args.latency > 0
    /\ ret.val.token_efficiency = <<0, 1>>
    /\ ret.val.latency_per_1k = <<0, 1>>

C11_WitnessPositive ==
    /\ pc = "returned"
    /\ Len(args.prompt) = 2
    /\ Len(args.response) = 3
    /\ args.latency = 3
    /\ ret.val.token_efficiency = <<3, 2>>
    /\ ret.val.latency_per_1k = <<1500, 1>>

====
